---- MODULE Spec2Model ----
(***************************************************************************)
(* Model of the fprof trace analyser (src/instruments/prof2.py, with the   *)
(* earlier single-report variant src/instruments/prof.py).                 *)
(*                                                                         *)
(*   Spec         analyze_thread_file read record by record                *)
(*   SpecMerge    agg_add / merge_aggs over aggregate maps                 *)
(*   SpecResolve  parse_maps / find_module / load-bias arithmetic          *)
(*   SpecMain     main of either program over a directory of thread logs   *)
(*                                                                         *)
(* A Python dict is a sequence of <<key, value>> pairs in insertion order  *)
(* (the order .items() iterates in); None is the record None.              *)
(***************************************************************************)
EXTENDS Integers, Sequences, FiniteSets, TLC

VARIABLES
    \* analyze_thread_file (Spec)
    pc, hdr, pos, recs, stack, aggs, last_ts, closed,
    \* merge_aggs (SpecMerge)
    mdst, msrcs,
    \* parse_maps / find_module (SpecResolve)
    rpc, mappings, query, found,
    \* main (SpecMain)
    mpc, prog, bin_paths, idx, per_thread, pids_seen, per_pid_combined,
    global_combined, global_aggs, args, reports, exit_status, log

threadVars == <<pc, hdr, pos, recs, stack, aggs, last_ts, closed>>
mergeVars == <<mdst, msrcs>>
resolveVars == <<rpc, mappings, query, found>>
mainVars == <<mpc, prog, bin_paths, idx, per_thread, pids_seen, per_pid_combined,
              global_combined, global_aggs, args, reports, exit_status, log>>
vars == <<threadVars, mergeVars, resolveVars, mainVars>>

----------------------------------------------------------------------------
(* Bounds of the model *)

\* records read from one thread log
MaxRecs == 4
\* timestamps are drawn from 0..MaxTs
MaxTs == 2
\* aggregate maps merged into one target
MaxMerges == 3
\* lines of a memory-map snapshot
MaxMapLines == 3
\* thread logs in the log directory
MaxFiles == 2

(* Program constants *)

\* struct.calcsize("<8sIIQII")
HEADER_SZ == 32
\* struct.calcsize("<QQB7x")
RECORD_SZ == 24
\* last_ts = None: timestamps are unsigned, so -1 is no timestamp
NoTs == -1

\* function addresses seen in the logs (0x1500, 0x3500)
Addrs == {5376, 13568}
Pids == {1, 2}
Tids == {1, 2}

None == [none |-> TRUE]

----------------------------------------------------------------------------
(* Aggregates *)

Max(a, b) == IF a >= b THEN a ELSE b

Agg(calls, incl_ns, excl_ns, max_incl_ns) ==
    [calls |-> calls, incl_ns |-> incl_ns, excl_ns |-> excl_ns, max_incl_ns |-> max_incl_ns]

agg_add_lastmax(a, calls, incl, excl, mx) ==
    IF a = None THEN Agg(calls, incl, excl, mx)
    ELSE Agg(a.calls + calls, a.incl_ns + incl, a.excl_ns + excl, mx)

agg_add(a, calls, incl, excl, mx) ==
    IF a = None THEN Agg(calls, incl, excl, mx)
    ELSE Agg(a.calls + calls, a.incl_ns + incl, a.excl_ns + excl, Max(a.max_incl_ns, mx))

(* dict *)

DictHas(d, k) == \E i \in 1..Len(d) : d[i][1] = k
DictIdx(d, k) == CHOOSE i \in 1..Len(d) : d[i][1] = k
DictGet(d, k) == IF DictHas(d, k) THEN d[DictIdx(d, k)][2] ELSE None
DictSet(d, k, v) ==
    IF DictHas(d, k) THEN [d EXCEPT ![DictIdx(d, k)] = <<k, v>>] ELSE Append(d, <<k, v>>)
DictKeys(d) == {d[i][1] : i \in 1..Len(d)}
\* d == e of two dicts: same keys, same values, insertion order ignored
DictEq(d, e) ==
    /\ DictKeys(d) = DictKeys(e)
    /\ \A k \in DictKeys(d) : DictGet(d, k) = DictGet(e, k)

\* the body of merge_aggs' loop for one item of src
MergeItem_overwrite(dst, addr, a) == DictSet(dst, addr, a)

MergeItem(dst, addr, a) ==
    DictSet(dst, addr, agg_add(DictGet(dst, addr), a.calls, a.incl_ns, a.excl_ns, a.max_incl_ns))

RECURSIVE merge_aggs(_, _)
merge_aggs(dst, src) ==
    IF src = <<>> THEN dst
    ELSE merge_aggs(MergeItem(dst, Head(src)[1], Head(src)[2]), Tail(src))

----------------------------------------------------------------------------
(* Binary reader and stack reconstruction *)

Headers ==
    {[len |-> HEADER_SZ, magic |-> "FPROFv1", pid |-> p, tid |-> t, rec_size |-> RECORD_SZ] :
        p \in Pids, t \in Tids}
    \cup {[len |-> HEADER_SZ, magic |-> "FPROFv0", pid |-> 1, tid |-> 1, rec_size |-> RECORD_SZ],
          [len |-> HEADER_SZ, magic |-> "FPROFv1", pid |-> 1, tid |-> 1, rec_size |-> 16],
          [len |-> 8, magic |-> "FPROFv1", pid |-> 1, tid |-> 1, rec_size |-> RECORD_SZ]}

\* load_header returns normally; otherwise it raises RuntimeError
HeaderOk_nomagic(h) == h.len = HEADER_SZ /\ h.rec_size = RECORD_SZ

HeaderOk(h) == h.len = HEADER_SZ /\ h.magic = "FPROFv1" /\ h.rec_size = RECORD_SZ

Records == [ts : 0..MaxTs, fn : Addrs, typ : {0, 1}]

\* "x - y if x >= y else 0"
Clamp_unclamped(x, y) == x - y

Clamp(x, y) == IF x >= y THEN x - y ELSE 0

\* One pass of the body of "while stack:" up to the parent update: pop the top
\* frame, aggregate it, charge its inclusive time to the frame below.
\* closed is the history of closures, in the order they happen.
ClosePop_nochild(st, ts, forced) ==
    LET n == Len(st.stack)
        top == st.stack[n]
        incl == Clamp(ts, top.start)
        excl == Clamp(incl, top.child)
    IN  [stack |-> SubSeq(st.stack, 1, n - 1),
         aggs |-> DictSet(st.aggs, top.fn,
                          agg_add(DictGet(st.aggs, top.fn), 1, incl, excl, incl)),
         closed |-> Append(st.closed,
                           [fn |-> top.fn, start |-> top.start, child |-> top.child,
                            ts |-> ts, incl |-> incl, excl |-> excl, forced |-> forced])]

ClosePop(st, ts, forced) ==
    LET n == Len(st.stack)
        top == st.stack[n]
        rest == SubSeq(st.stack, 1, n - 1)
        incl == Clamp(ts, top.start)
        excl == Clamp(incl, top.child)
    IN  [stack |-> IF rest # <<>> THEN [rest EXCEPT ![n - 1].child = @ + incl] ELSE rest,
         aggs |-> DictSet(st.aggs, top.fn,
                          agg_add(DictGet(st.aggs, top.fn), 1, incl, excl, incl)),
         closed |-> Append(st.closed,
                           [fn |-> top.fn, start |-> top.start, child |-> top.child,
                            ts |-> ts, incl |-> incl, excl |-> excl, forced |-> forced])]

\* exit: drain until match
RECURSIVE DrainLoop(_, _, _)
DrainLoop(st, ts_ns, fn) ==
    IF st.stack = <<>> THEN st
    ELSE LET top_fn == st.stack[Len(st.stack)].fn
             nx == ClosePop(st, ts_ns, FALSE)
         IN  IF top_fn = fn THEN nx ELSE DrainLoop(nx, ts_ns, fn)

\* abrupt termination: close every remaining frame at end_ts
RECURSIVE ForceLoop(_, _)
ForceLoop(st, end_ts) ==
    IF st.stack = <<>> THEN st ELSE ForceLoop(ClosePop(st, end_ts, TRUE), end_ts)

\* the body of the record loop after unpacking one record
ProcessRecord_popone(st, rec) ==
    IF rec.typ = 0
    THEN [st EXCEPT !.stack = Append(@, [fn |-> rec.fn, start |-> rec.ts, child |-> 0])]
    ELSE IF st.stack = <<>> THEN st ELSE ClosePop(st, rec.ts, FALSE)

ProcessRecord(st, rec) ==
    IF rec.typ = 0
    THEN [st EXCEPT !.stack = Append(@, [fn |-> rec.fn, start |-> rec.ts, child |-> 0])]
    ELSE DrainLoop(st, rec.ts, rec.fn)

\* "if last_ts is not None and stack:" after the record loop
CloseRemaining_toponly(st, ts) ==
    IF ts # NoTs /\ st.stack # <<>> THEN ClosePop(st, ts, TRUE) ELSE st

CloseRemaining(st, ts) ==
    IF ts # NoTs /\ st.stack # <<>> THEN ForceLoop(st, ts) ELSE st

\* the whole of analyze_thread_file on the records rs of an accepted log,
\* aggregating into a0 (prof2.py: a fresh dict; prof.py: the caller's dict)
RECURSIVE RunRecords(_, _)
RunRecords(st, rs) ==
    IF rs = <<>> THEN st ELSE RunRecords(ProcessRecord(st, Head(rs)), Tail(rs))

AnalyzeRecords(rs, a0) ==
    CloseRemaining(RunRecords([stack |-> <<>>, aggs |-> a0, closed |-> <<>>], rs),
                   IF rs = <<>> THEN NoTs ELSE rs[Len(rs)].ts).aggs

----------------------------------------------------------------------------
(* Spec: analyze_thread_file of prof2.py on one thread log *)

IdleMerge == mdst = <<>> /\ msrcs = <<>>
IdleResolve == rpc = "idle" /\ mappings = <<>> /\ query = 0 /\ found = None
IdleMain ==
    /\ mpc = "idle" /\ prog = "none" /\ bin_paths = <<>> /\ idx = 0
    /\ per_thread = <<>> /\ pids_seen = {} /\ per_pid_combined = <<>>
    /\ global_combined = <<>> /\ global_aggs = <<>> /\ args = None
    /\ reports = <<>> /\ exit_status = <<>> /\ log = <<>>
IdleThread ==
    /\ pc = "idle" /\ hdr = None /\ pos = 0 /\ recs = <<>> /\ stack = <<>>
    /\ aggs = <<>> /\ last_ts = NoTs /\ closed = <<>>

Init ==
    /\ pc = "open" /\ hdr = None /\ pos = 0 /\ recs = <<>> /\ stack = <<>>
    /\ aggs = <<>> /\ last_ts = NoTs /\ closed = <<>>
    /\ IdleMerge /\ IdleResolve /\ IdleMain

\* load_header, then pos = HEADER_SZ, stack = [], last_ts = None
LoadHeader ==
    /\ pc = "open"
    /\ \E h \in {g \in Headers : g.pid = 1 /\ g.tid = 1} :
        /\ hdr' = h
        /\ IF HeaderOk(h)
           THEN pc' = "loop" /\ pos' = HEADER_SZ
           ELSE pc' = "raised" /\ pos' = pos
    /\ UNCHANGED <<recs, stack, aggs, last_ts, closed>>
    /\ UNCHANGED <<mergeVars, resolveVars, mainVars>>

\* one iteration of "while pos + RECORD_SZ <= end"
ReadRecord ==
    /\ pc = "loop"
    /\ Len(recs) < MaxRecs
    /\ \E rec \in Records :
        LET nx == ProcessRecord([stack |-> stack, aggs |-> aggs, closed |-> closed], rec)
        IN  /\ recs' = Append(recs, rec)
            /\ pos' = pos + RECORD_SZ
            /\ last_ts' = rec.ts
            /\ stack' = nx.stack
            /\ aggs' = nx.aggs
            /\ closed' = nx.closed
    /\ UNCHANGED <<pc, hdr>>
    /\ UNCHANGED <<mergeVars, resolveVars, mainVars>>

\* fewer than RECORD_SZ bytes remain: leave the loop, close what is open, return
EndOfStream ==
    /\ pc = "loop"
    /\ LET nx == CloseRemaining([stack |-> stack, aggs |-> aggs, closed |-> closed], last_ts)
       IN  /\ stack' = nx.stack
           /\ aggs' = nx.aggs
           /\ closed' = nx.closed
    /\ pc' = "returned"
    /\ UNCHANGED <<hdr, pos, recs, last_ts>>
    /\ UNCHANGED <<mergeVars, resolveVars, mainVars>>

Next == LoadHeader \/ ReadRecord \/ EndOfStream

Spec == Init /\ [][Next]_vars

----------------------------------------------------------------------------
(* The nesting structure of a record sequence, read off the records alone *)

IsEnter(r) == r.typ = 0

\* open frames after the first k records if every Exit closes exactly one frame
Depth(rs, k) ==
    Cardinality({i \in 1..k : IsEnter(rs[i])}) - Cardinality({i \in 1..k : ~IsEnter(rs[i])})

Balanced(rs) ==
    /\ \A k \in 1..Len(rs) : Depth(rs, k) >= 0
    /\ Depth(rs, Len(rs)) = 0

\* the Exit that closes the frame opened by the Enter at i (rs balanced)
MatchOf(rs, i) ==
    CHOOSE j \in (i + 1)..Len(rs) :
        /\ Depth(rs, j) = Depth(rs, i - 1)
        /\ \A m \in i..(j - 1) : Depth(rs, m) > Depth(rs, i - 1)

Enters(rs) == {i \in 1..Len(rs) : IsEnter(rs[i])}

\* perfectly balanced and correctly nested: every Exit names the frame it closes
Nested(rs) ==
    /\ Balanced(rs)
    /\ \A i \in Enters(rs) : rs[MatchOf(rs, i)].fn = rs[i].fn

Monotone(rs) == \A i \in 1..Len(rs) : \A j \in i..Len(rs) : rs[i].ts <= rs[j].ts

\* the frames opened directly inside the frame opened at i
Children(rs, i) ==
    {j \in (i + 1)..(MatchOf(rs, i) - 1) : IsEnter(rs[j]) /\ Depth(rs, j - 1) = Depth(rs, i)}

\* inclusive time of the frame opened at i, as a duration (never negative)
FrameIncl(rs, i) ==
    LET d == rs[MatchOf(rs, i)].ts - rs[i].ts IN IF d >= 0 THEN d ELSE 0

RECURSIVE SumOver(_, _, _)
SumOver(rs, S, kind) ==
    IF S = {} THEN 0
    ELSE LET i == CHOOSE x \in S : TRUE
         IN  (IF kind = "incl" THEN FrameIncl(rs, i)
              ELSE SumOver(rs, Children(rs, i), "incl"))
             + SumOver(rs, S \ {i}, kind)

\* over all frames of function f: the inclusive time of their direct children
ChildInclOf(rs, f) == SumOver(rs, {i \in Enters(rs) : rs[i].fn = f}, "children")

RECURSIVE SumExcl(_)
SumExcl(d) == IF d = <<>> THEN 0 ELSE Head(d)[2].excl_ns + SumExcl(Tail(d))

\* the k-th Exit record of rs
ExitIdx(rs, k) ==
    CHOOSE j \in 1..Len(rs) :
        ~IsEnter(rs[j]) /\ Cardinality({m \in 1..j : ~IsEnter(rs[m])}) = k

\* in a nested sequence the k-th closure is the k-th Exit; it closes a leaf
\* frame when the record before it is an Enter
LeafClosures(rs) ==
    {k \in 1..Cardinality({j \in 1..Len(rs) : ~IsEnter(rs[j])}) : IsEnter(rs[ExitIdx(rs, k) - 1])}

ExclusiveIsInclusiveMinusChildren ==
    \A f \in DictKeys(aggs) :
        DictGet(aggs, f).excl_ns = DictGet(aggs, f).incl_ns - ChildInclOf(recs, f)

LeafInclusiveIsExclusive ==
    \A k \in LeafClosures(recs) : closed[k].incl = closed[k].excl

\* C1 as stated: for any balanced, correctly nested record sequence, when
\* analyze_thread_file returns, every function's exclusive total is its inclusive
\* total minus the inclusive time of its direct child frames, and a leaf frame
\* contributes inclusive == exclusive.
C1_AnyNestedSequence ==
    (pc = "returned" /\ Nested(recs)) =>
        (ExclusiveIsInclusiveMinusChildren /\ LeafInclusiveIsExclusive)

\* C1 amended: the same for balanced, correctly nested sequences whose timestamps
\* never decrease; the leaf part holds for every nested sequence.
C1_ExclusiveOfNestedMonotone ==
    (pc = "returned" /\ Nested(recs)) =>
        /\ LeafInclusiveIsExclusive
        /\ Monotone(recs) => ExclusiveIsInclusiveMinusChildren

\* a nested call with time spent in the child, and a leaf, have been aggregated
C1_Witness ==
    /\ pc = "returned" /\ Nested(recs) /\ Monotone(recs)
    /\ \E f \in DictKeys(aggs) :
        ChildInclOf(recs, f) > 0 /\ DictGet(aggs, f).excl_ns > 0
    /\ LeafClosures(recs) # {}

\* C2 as stated: for any balanced, correctly nested record sequence of one thread
\* the exclusive totals of all functions add up to the last Exit timestamp minus
\* the first Enter timestamp.
C2_AnyNestedSequence ==
    (pc = "returned" /\ Nested(recs) /\ recs # <<>>) =>
        SumExcl(aggs) = recs[Len(recs)].ts - recs[1].ts

\* the whole log is one outermost call: the first Enter is closed by the last record
SingleRoot(rs) == rs # <<>> /\ MatchOf(rs, 1) = Len(rs)

\* C2 amended: the exclusive totals add up to last Exit - first Enter when the
\* nested sequence is one outermost call and its timestamps never decrease.
C2_ExclusiveSumOfSingleRoot ==
    (pc = "returned" /\ Nested(recs) /\ SingleRoot(recs) /\ Monotone(recs)) =>
        SumExcl(aggs) = recs[Len(recs)].ts - recs[1].ts

C2_Witness ==
    /\ pc = "returned" /\ Nested(recs) /\ SingleRoot(recs) /\ Monotone(recs)
    /\ Len(recs) = 4 /\ Cardinality(DictKeys(aggs)) = 2
    /\ SumExcl(aggs) = 2 /\ \A i \in 1..Len(aggs) : aggs[i][2].excl_ns = 1

\* C8: durations are never negative: every closure has inclusive =
\* max(0, exit_ts - entry_ts) and exclusive = max(0, inclusive - child time), and
\* every aggregate field and every open frame's child time is >= 0.
C8_DurationsNeverNegative ==
    /\ \A i \in 1..Len(closed) :
        LET c == closed[i]
        IN  /\ c.incl = Max(0, c.ts - c.start)
            /\ c.excl = Max(0, c.incl - c.child)
    /\ \A i \in 1..Len(aggs) :
        LET a == aggs[i][2]
        IN  a.incl_ns >= 0 /\ a.excl_ns >= 0 /\ a.max_incl_ns >= 0
    /\ \A i \in 1..Len(stack) : stack[i].child >= 0

\* a frame was closed by a record older than its Enter, and a parent's inclusive
\* time was smaller than its child's
C8_Witness ==
    /\ \E i \in 1..Len(closed) : closed[i].ts < closed[i].start
    /\ \E i \in 1..Len(closed) : closed[i].incl < closed[i].child

\* the closures CloseRemaining must make of the frames open before it
ForcedClosuresOf(stk, ts) ==
    [k \in 1..Len(stk) |->
        LET fr == stk[Len(stk) + 1 - k]
        IN  [fn |-> fr.fn, start |-> fr.start, ts |-> ts]]

\* the step that leaves the record loop: every frame open before it is closed,
\* top of stack first, at the timestamp of the last record read
C7_EndOfStreamStep ==
    (pc = "loop" /\ pc' # "loop") =>
        /\ pc' = "returned"
        /\ stack' = <<>>
        /\ Len(closed') = Len(closed) + Len(stack)
        /\ \A k \in 1..Len(stack) :
            LET c == closed'[Len(closed) + k]
                w == ForcedClosuresOf(stack, recs[Len(recs)].ts)[k]
            IN  /\ c.forced /\ c.fn = w.fn /\ c.start = w.start /\ c.ts = w.ts
                /\ c.incl >= 0 /\ c.incl = Max(0, w.ts - w.start)
        /\ \A f \in Addrs :
            LET n == Cardinality({k \in 1..Len(stack) : stack[k].fn = f})
                before == IF DictHas(aggs, f) THEN DictGet(aggs, f).calls ELSE 0
                after == IF DictHas(aggs', f) THEN DictGet(aggs', f).calls ELSE 0
            IN  after = before + n

\* C7: when the stream ends with frames open, every remaining frame is closed,
\* top of stack first, at the timestamp of the last record read, each with a
\* duration >= 0; the stack is empty on return and no error is raised.
C7_ForceCloseAtEndOfStream == [][C7_EndOfStreamStep]_vars

\* two frames were left open and have been force-closed
C7_Witness ==
    /\ pc = "returned" /\ stack = <<>>
    /\ Cardinality({i \in 1..Len(closed) : closed[i].forced}) >= 2
    /\ \E i \in 1..Len(closed) : closed[i].forced /\ closed[i].incl > 0

----------------------------------------------------------------------------
(* SpecMerge: merge_aggs of per-thread aggregate maps into one target map *)

AggSamples == {Agg(2, 100, 60, 60), Agg(1, 40, 40, 40), Agg(1, 100, 0, 100)}

\* aggregate maps over Addrs: one function, or both in either insertion order
AggMaps ==
    {<<>>}
    \cup {<<<<f, a>>>> : f \in Addrs, a \in AggSamples}
    \cup {<<<<f, ab[1]>>, <<g, ab[2]>>>> :
            <<f, g>> \in {x \in Addrs \X Addrs : x[1] # x[2]},
            ab \in {<<Agg(2, 100, 60, 60), Agg(1, 40, 40, 40)>>,
                    <<Agg(1, 40, 40, 40), Agg(1, 100, 0, 100)>>,
                    <<Agg(1, 100, 0, 100), Agg(2, 100, 60, 60)>>}}

InitMerge ==
    /\ mdst = <<>> /\ msrcs = <<>>
    /\ IdleThread /\ IdleResolve /\ IdleMain

\* merge_aggs(dst, src) on the target map
MergeInto ==
    /\ Len(msrcs) < MaxMerges
    /\ \E src \in AggMaps :
        /\ mdst' = merge_aggs(mdst, src)
        /\ msrcs' = Append(msrcs, src)
    /\ UNCHANGED <<threadVars, resolveVars, mainVars>>

NextMerge == MergeInto

SpecMerge == InitMerge /\ [][NextMerge]_vars

Perms(n) == {p \in [1..n -> 1..n] : \A i, j \in 1..n : p[i] = p[j] => i = j}
Permuted(s, p) == [i \in 1..Len(s) |-> s[p[i]]]

RECURSIVE MergeAll(_, _)
MergeAll(dst, srcs) ==
    IF srcs = <<>> THEN dst ELSE MergeAll(merge_aggs(dst, Head(srcs)), Tail(srcs))

\* a + b as merge_aggs combines the entry b of src with the entry a of dst
Combine(a, b) == agg_add(a, b.calls, b.incl_ns, b.excl_ns, b.max_incl_ns)

AggsOf(srcs) == {srcs[i][j][2] : <<i, j>> \in {x \in (1..Len(srcs)) \X (1..2) : x[2] <= Len(srcs[x[1]])}}

\* C3: merging aggregates is commutative and associative with the absent
\* aggregate as identity (calls, inclusive and exclusive are summed, max-inclusive
\* is the max), so merging the same maps into a target in any order gives the
\* same map.
C3_MergeCommutativeAssociative ==
    /\ \A a, b \in AggsOf(msrcs) :
        /\ Combine(a, b) = Combine(b, a)
        /\ Combine(a, b) = Agg(a.calls + b.calls, a.incl_ns + b.incl_ns,
                               a.excl_ns + b.excl_ns, Max(a.max_incl_ns, b.max_incl_ns))
        /\ Combine(None, a) = a
        /\ \A c \in AggsOf(msrcs) : Combine(Combine(a, b), c) = Combine(a, Combine(b, c))
    /\ \A p \in Perms(Len(msrcs)) : DictEq(MergeAll(<<>>, Permuted(msrcs, p)), mdst)
    /\ \A i \in 1..Len(msrcs) : merge_aggs(msrcs[i], <<>>) = msrcs[i]
    /\ \A f \in Addrs :
        (/\ Len(msrcs) = 2
         /\ DictGet(msrcs[1], f) = Agg(2, 100, 60, 60)
         /\ DictGet(msrcs[2], f) = Agg(1, 40, 40, 40))
        => DictGet(mdst, f) = Agg(3, 140, 100, 60)

\* three maps sharing a function, with different max-inclusive, have been merged,
\* the largest max-inclusive not last
C3_Witness ==
    /\ Len(msrcs) = 3
    /\ \E f \in Addrs :
        /\ \A i \in 1..3 : DictHas(msrcs[i], f)
        /\ DictGet(msrcs[1], f).max_incl_ns > DictGet(msrcs[3], f).max_incl_ns
        /\ DictGet(msrcs[2], f).max_incl_ns < DictGet(msrcs[3], f).max_incl_ns
        /\ DictGet(mdst, f).calls = 4
    /\ \E i \in 1..3 : Len(msrcs[i]) = 2

----------------------------------------------------------------------------
(* Memory maps: parse_maps, find_module, load bias *)

\* a line of <pid>.maps after split(): hex fields already read as numbers
\* (0x1000 = 4096, 0x2000 = 8192, 0x3000 = 12288, 0x4000 = 16384)
MapLines ==
    {[start |-> iv[1], end |-> iv[2], perms |-> at[1], off |-> at[2], path |-> at[3]] :
        iv \in {x \in {4096, 8192, 12288} \X {8192, 12288, 16384} : x[1] < x[2]},
        at \in {<<<<"r", "-", "x", "p">>, 0, "a">>,
                <<<<"r", "-", "x", "p">>, 4096, "b">>,
                <<<<"r", "w", "-", "p">>, 0, "a">>}}

MapsFiles == UNION {[1..n -> MapLines] : n \in 0..MaxMapLines}

\* mappings.sort(key=lambda m: m[0]): stable, ascending by start
RECURSIVE InsertByStart(_, _)
InsertByStart(sorted, m) ==
    IF sorted = <<>> THEN <<m>>
    ELSE IF sorted[Len(sorted)].start <= m.start THEN Append(sorted, m)
    ELSE Append(InsertByStart(SubSeq(sorted, 1, Len(sorted) - 1), m), sorted[Len(sorted)])

RECURSIVE SortByStart(_)
SortByStart(ms) ==
    IF ms = <<>> THEN <<>>
    ELSE InsertByStart(SortByStart(SubSeq(ms, 1, Len(ms) - 1)), ms[Len(ms)])

\* one line of the snapshot: nothing for a non-executable segment
ParseLine(l) ==
    IF \E i \in 1..Len(l.perms) : l.perms[i] = "x"
    THEN <<[start |-> l.start, end |-> l.end, off |-> l.off, path |-> l.path,
            base_vma |-> l.start - l.off]>>
    ELSE <<>>

RECURSIVE ParseLines(_)
ParseLines(ls) == IF ls = <<>> THEN <<>> ELSE ParseLine(Head(ls)) \o ParseLines(Tail(ls))

parse_maps(ls) == SortByStart(ParseLines(ls))

\* the three-way test of one probe of the binary search
Probe_closed(m, addr) ==
    IF addr < m.start THEN "left" ELSE IF addr > m.end THEN "right" ELSE "hit"

Probe(m, addr) ==
    IF addr < m.start THEN "left" ELSE IF addr >= m.end THEN "right" ELSE "hit"

\* lo, hi, mid are the 0-based indices of the code; mappings[mid] is ms[mid + 1]
RECURSIVE Bisect(_, _, _, _)
Bisect(ms, addr, lo, hi) ==
    IF lo > hi THEN None
    ELSE LET mid == (lo + hi) \div 2
             side == Probe(ms[mid + 1], addr)
         IN  IF side = "left" THEN Bisect(ms, addr, lo, mid - 1)
             ELSE IF side = "right" THEN Bisect(ms, addr, mid + 1, hi)
             ELSE ms[mid + 1]

find_module(ms, addr) == Bisect(ms, addr, 0, Len(ms) - 1)

\* build_symbol_cache for one address: (mod_path, vma) of addr2modvma
ModVma(ms, addr) ==
    LET m == IF ms # <<>> THEN find_module(ms, addr) ELSE None
    IN  IF m # None
        THEN [mod |-> m.path, vma |-> addr - m.base_vma]
        ELSE [mod |-> "", vma |-> None]

(* SpecResolve: a snapshot is parsed, then an address is looked up *)

QueryAddrs == Addrs \cup {2048, 8192, 10240, 16384}

InitResolve ==
    /\ rpc = "parse" /\ mappings = <<>> /\ query = 0 /\ found = None
    /\ IdleThread /\ IdleMerge /\ IdleMain

ParseMaps ==
    /\ rpc = "parse"
    /\ \E ls \in MapsFiles : mappings' = parse_maps(ls)
    /\ rpc' = "lookup"
    /\ UNCHANGED <<query, found>>
    /\ UNCHANGED <<threadVars, mergeVars, mainVars>>

Lookup ==
    /\ rpc = "lookup"
    /\ \E addr \in QueryAddrs :
        /\ query' = addr
        /\ found' = [m |-> find_module(mappings, addr), modvma |-> ModVma(mappings, addr)]
    /\ rpc' = "done"
    /\ UNCHANGED mappings
    /\ UNCHANGED <<threadVars, mergeVars, mainVars>>

NextResolve == ParseMaps \/ Lookup

SpecResolve == InitResolve /\ [][NextResolve]_vars

Contains(m, addr) == m.start <= addr /\ addr < m.end

StartSorted(ms) == \A i \in 1..(Len(ms) - 1) : ms[i].start <= ms[i + 1].start

\* no two mappings overlap: each ends where the next starts, or before
NonOverlapping(ms) == \A i \in 1..(Len(ms) - 1) : ms[i].end <= ms[i + 1].start

SpecExampleMaps ==
    <<[start |-> 4096, end |-> 8192, off |-> 0, path |-> "a", base_vma |-> 4096],
      [start |-> 12288, end |-> 16384, off |-> 4096, path |-> "b", base_vma |-> 8192]>>

HitOrMiss ==
    /\ (\E i \in 1..Len(mappings) : Contains(mappings[i], query))
        => /\ found.m # None
           /\ \E i \in 1..Len(mappings) : mappings[i] = found.m
           /\ Contains(found.m, query)
           /\ found.modvma.mod = found.m.path
           /\ found.modvma.vma = query - (found.m.start - found.m.off)
    /\ ~(\E i \in 1..Len(mappings) : Contains(mappings[i], query))
        => found.m = None /\ found.modvma = [mod |-> "", vma |-> None]

\* C6 as stated: for any start-sorted list of executable mappings find_module
\* returns a mapping containing the address whenever one exists and None
\* otherwise; the link-time address is address - (start - offset), and the
\* mappings (0x1000,0x2000,0,"a"), (0x3000,0x4000,0x1000,"b") resolve 0x3500 to
\* module "b", link-time address 0x2500 (9472).
C6_AnySortedList ==
    (rpc = "done" /\ StartSorted(mappings)) =>
        /\ HitOrMiss
        /\ (mappings = SpecExampleMaps /\ query = 13568)
            => found.modvma = [mod |-> "b", vma |-> 9472]

\* C6 amended: the same for start-sorted lists whose mappings do not overlap;
\* the example resolves 0x3500 to module "b", link-time address 0x1500 (5376).
C6_FindModuleOnDisjointMaps ==
    (rpc = "done" /\ StartSorted(mappings))
        => /\ NonOverlapping(mappings) => HitOrMiss
           /\ (mappings = SpecExampleMaps /\ query = 13568)
               => found.modvma = [mod |-> "b", vma |-> 5376]

\* a hit in the last of three disjoint mappings, with a load bias
C6_Witness ==
    /\ rpc = "done" /\ Len(mappings) = 3 /\ NonOverlapping(mappings)
    /\ found.m = mappings[3] /\ found.m.off # 0
    /\ found.modvma.vma # query

\* an address equal to the end of one mapping and outside all of them
C6_WitnessMiss ==
    /\ rpc = "done" /\ Len(mappings) = 2 /\ NonOverlapping(mappings)
    /\ query = mappings[1].end /\ found.m = None

----------------------------------------------------------------------------
(* Reporting *)

\* {"exclusive": 4, "inclusive": 3, "calls": 2}[sort_by], as a 1-based index
key_idx(sort_by) ==
    CASE sort_by = "exclusive" -> 5 [] sort_by = "inclusive" -> 4 [] sort_by = "calls" -> 3

\* f"0x{addr:x}"
HexAddr(addr) == <<"0x", addr>>

\* one row; mod_disp is the module column as a list of its parts. No name is
\* ever resolved (addr2line is not installed), so the function shows as hex.
Row(mod_disp, addr, a) ==
    <<mod_disp, HexAddr(addr), a.calls, a.incl_ns, a.excl_ns,
      IF a.calls # 0 THEN a.incl_ns \div a.calls ELSE 0,
      IF a.calls # 0 THEN a.excl_ns \div a.calls ELSE 0,
      a.max_incl_ns>>

\* rows.sort(key=lambda r: r[key_idx], reverse=True): where a row goes
\* relative to a row already placed before it
StaysBefore_strict(placed, r, k) == placed[k] > r[k]

StaysBefore(placed, r, k) == placed[k] >= r[k]

RECURSIVE InsertDesc(_, _, _)
InsertDesc(sorted, r, k) ==
    IF sorted = <<>> THEN <<r>>
    ELSE IF StaysBefore(sorted[Len(sorted)], r, k) THEN Append(sorted, r)
    ELSE Append(InsertDesc(SubSeq(sorted, 1, Len(sorted) - 1), r, k), sorted[Len(sorted)])

RECURSIVE SortRowsDesc(_, _)
SortRowsDesc(rows, k) ==
    IF rows = <<>> THEN <<>>
    ELSE InsertDesc(SortRowsDesc(SubSeq(rows, 1, Len(rows) - 1), k), rows[Len(rows)], k)

\* "if top_n > 0: rows = rows[:top_n]"
Truncate_skipfirst(rows, top_n) ==
    IF top_n > 0 /\ Len(rows) > top_n THEN SubSeq(rows, 2, top_n + 1) ELSE rows

Truncate(rows, top_n) ==
    IF top_n > 0 THEN SubSeq(rows, 1, IF top_n < Len(rows) THEN top_n ELSE Len(rows)) ELSE rows

\* the log directory holds 1.maps (the two executable mappings of the
\* specification's example and a data segment) and no 2.maps
MapsDir ==
    <<<<1, <<[start |-> 4096, end |-> 8192, perms |-> <<"r", "-", "x", "p">>, off |-> 0, path |-> "a"],
            [start |-> 8192, end |-> 12288, perms |-> <<"r", "w", "-", "p">>, off |-> 4096, path |-> "a"],
            [start |-> 12288, end |-> 16384, perms |-> <<"r", "-", "x", "p">>, off |-> 4096, path |-> "b"]>>>>>>

\* pid_to_maps of prof2.py main: a parsed snapshot for every pid seen that has one
RECURSIVE pid_to_maps(_, _)
pid_to_maps(dir, pids) ==
    IF dir = <<>> THEN <<>>
    ELSE (IF Head(dir)[1] \in pids THEN <<<<Head(dir)[1], parse_maps(Head(dir)[2])>>>> ELSE <<>>)
         \o pid_to_maps(Tail(dir), pids)

\* addr2modvma[(pid, addr)], pid a pid seen
addr2modvma(pid, addr) ==
    LET maps == DictGet(pid_to_maps(MapsDir, {pid}), pid)
    IN  IF maps # None THEN ModVma(maps, addr) ELSE [mod |-> "", vma |-> None]

\* the rows of an aggregate map in its iteration order
RECURSIVE RowsOfAggs(_, _)
RowsOfAggs(pid, d) ==
    IF d = <<>> THEN <<>>
    ELSE <<Row(<<addr2modvma(pid, Head(d)[1]).mod>>, Head(d)[1], Head(d)[2])>>
         \o RowsOfAggs(pid, Tail(d))

rows_from_aggs(pid, d, sort_by, top_n) ==
    Truncate(SortRowsDesc(RowsOfAggs(pid, d), key_idx(sort_by)), top_n)

\* the rows of the combined report: the module column carries "[pid N]"
RECURSIVE GlobalRowsOf(_)
GlobalRowsOf(g) ==
    IF g = <<>> THEN <<>>
    ELSE LET pid == Head(g)[1][1]
             addr == Head(g)[1][2]
         IN  <<Row(<<"[pid", pid, "]", addr2modvma(pid, addr).mod>>, addr, Head(g)[2])>>
             \o GlobalRowsOf(Tail(g))

global_rows(g, sort_by, top_n) ==
    Truncate(SortRowsDesc(GlobalRowsOf(g), key_idx(sort_by)), top_n)

\* prof.py: every address is looked up in the first snapshot of the directory
RECURSIVE RowsOfAggs1(_)
RowsOfAggs1(d) ==
    IF d = <<>> THEN <<>>
    ELSE <<Row(<<ModVma(parse_maps(MapsDir[1][2]), Head(d)[1]).mod>>, Head(d)[1], Head(d)[2])>>
         \o RowsOfAggs1(Tail(d))

rows1(d, top_n) == Truncate(SortRowsDesc(RowsOfAggs1(d), key_idx("exclusive")), top_n)

----------------------------------------------------------------------------
(* main *)

Enter(f, t) == [ts |-> t, fn |-> f, typ |-> 0]
Exit(f, t) == [ts |-> t, fn |-> f, typ |-> 1]

\* the record streams of the thread logs of the directory
Traces ==
    {<<>>}
    \cup {<<Enter(f, 0), Exit(f, 1)>> : f \in Addrs}
    \cup {<<Enter(5376, 0), Enter(13568, 1), Exit(13568, 2), Exit(5376, 2)>>,
          <<Enter(13568, 0), Exit(13568, 1), Enter(5376, 1), Exit(5376, 2)>>}

LogFiles ==
    {[hdr |-> h, recs |-> rs] : h \in {g \in Headers : HeaderOk(g) /\ <<g.pid, g.tid>> # <<2, 2>>},
                                rs \in Traces}
    \cup {[hdr |-> h, recs |-> <<Enter(5376, 0), Exit(5376, 1)>>] :
            h \in {g \in Headers : g.len = HEADER_SZ /\ ~HeaderOk(g)}}

Directories == UNION {[1..n -> LogFiles] : n \in 0..MaxFiles}

\* prof2.py: the body of "for p in bin_paths" for the i-th path
ParseFile2(m, file, i) ==
    IF HeaderOk(file.hdr)
    THEN [m EXCEPT !.per_thread = DictSet(@, <<file.hdr.pid, file.hdr.tid>>,
                                          AnalyzeRecords(file.recs, <<>>)),
                   !.pids_seen = @ \cup {file.hdr.pid}]
    ELSE [m EXCEPT !.log = Append(@, <<"Failed to parse", i>>)]

\* prof.py: the body of "for p in bins" for the i-th path
ParseFile1(m, file, i) ==
    IF HeaderOk(file.hdr)
    THEN [m EXCEPT !.global_aggs = AnalyzeRecords(file.recs, @)]
    ELSE [m EXCEPT !.log = Append(@, <<"Failed to parse", i>>)]

\* global_combined[(pid, addr)] = agg_add(global_combined.get((pid, addr)), ...)
RECURSIVE MergeGlobal(_, _, _)
MergeGlobal(g, pid, d) ==
    IF d = <<>> THEN g
    ELSE MergeGlobal(MergeItem(g, <<pid, Head(d)[1]>>, Head(d)[2]), pid, Tail(d))

\* prof2.py: the body of "for (pid, tid), aggs in per_thread.items()"
CombineThread(c, pid, d) ==
    [per_pid_combined |->
        DictSet(c.per_pid_combined, pid,
                merge_aggs(IF DictHas(c.per_pid_combined, pid)
                           THEN DictGet(c.per_pid_combined, pid) ELSE <<>>, d)),
     global_combined |-> MergeGlobal(c.global_combined, pid, d)]

RECURSIVE CombineAll(_, _)
CombineAll(c, pt) ==
    IF pt = <<>> THEN c
    ELSE CombineAll(CombineThread(c, Head(pt)[1][1], Head(pt)[2]), Tail(pt))

RECURSIVE ThreadReports(_, _, _)
ThreadReports(pt, sort_by, top_n) ==
    IF pt = <<>> THEN <<>>
    ELSE DictSet(ThreadReports(SubSeq(pt, 1, Len(pt) - 1), sort_by, top_n),
                 <<"tid", pt[Len(pt)][1][1], pt[Len(pt)][1][2]>>,
                 rows_from_aggs(pt[Len(pt)][1][1], pt[Len(pt)][2], sort_by, top_n))

RECURSIVE PidReports(_, _, _, _)
PidReports(out, ppc, sort_by, top_n) ==
    IF ppc = <<>> THEN out
    ELSE PidReports(DictSet(out, <<"pid", Head(ppc)[1], 0>>,
                            rows_from_aggs(Head(ppc)[1], Head(ppc)[2], sort_by, top_n)),
                    Tail(ppc), sort_by, top_n)

\* prof2.py: the CSV files written, by name
WriteAll(pt, ppc, g, sort_by, top_n) ==
    DictSet(PidReports(ThreadReports(pt, sort_by, top_n), ppc, sort_by, top_n),
            <<"combined", 0, 0>>, global_rows(g, sort_by, top_n))

Programs == {"prof2", "prof"}
SortKeys == {"exclusive", "inclusive", "calls"}
Tops == {0, 1, 2}

InitMain ==
    /\ mpc = "glob" /\ prog \in Programs /\ bin_paths \in Directories /\ idx = 0
    /\ per_thread = <<>> /\ pids_seen = {} /\ per_pid_combined = <<>>
    /\ global_combined = <<>> /\ global_aggs = <<>> /\ args = None
    /\ reports = <<>> /\ exit_status = <<>> /\ log = <<>>
    /\ IdleThread /\ IdleMerge /\ IdleResolve

\* sorted(glob("*.bin")); "No .bin logs found": sys.exit(1)
Glob ==
    /\ mpc = "glob"
    /\ IF bin_paths = <<>>
       THEN /\ mpc' = "exit" /\ exit_status' = <<1>>
            /\ log' = Append(log, <<"No .bin logs found", 0>>)
            /\ idx' = idx
       ELSE /\ mpc' = "parse" /\ idx' = 1
            /\ UNCHANGED <<exit_status, log>>
    /\ UNCHANGED <<prog, bin_paths, per_thread, pids_seen, per_pid_combined,
                   global_combined, global_aggs, args, reports>>
    /\ UNCHANGED <<threadVars, mergeVars, resolveVars>>

\* prof2.py: try: analyze_thread_file(p) ... except Exception: print
Parse2 ==
    /\ mpc = "parse" /\ prog = "prof2" /\ idx <= Len(bin_paths)
    /\ LET m == ParseFile2([per_thread |-> per_thread, pids_seen |-> pids_seen, log |-> log],
                           bin_paths[idx], idx)
       IN  /\ per_thread' = m.per_thread
           /\ pids_seen' = m.pids_seen
           /\ log' = m.log
    /\ idx' = idx + 1
    /\ UNCHANGED <<mpc, prog, bin_paths, per_pid_combined, global_combined, global_aggs,
                   args, reports, exit_status>>
    /\ UNCHANGED <<threadVars, mergeVars, resolveVars>>

\* prof2.py: "if not per_thread: sys.exit(1)"
Check2 ==
    /\ mpc = "parse" /\ prog = "prof2" /\ idx > Len(bin_paths)
    /\ IF per_thread = <<>>
       THEN /\ mpc' = "exit" /\ exit_status' = <<1>>
            /\ log' = Append(log, <<"No data aggregated.", 0>>)
       ELSE /\ mpc' = "combine"
            /\ UNCHANGED <<exit_status, log>>
    /\ UNCHANGED <<prog, bin_paths, idx, per_thread, pids_seen, per_pid_combined,
                   global_combined, global_aggs, args, reports>>
    /\ UNCHANGED <<threadVars, mergeVars, resolveVars>>

\* prof2.py: build per-PID combined and global combined
Combine2 ==
    /\ mpc = "combine"
    /\ LET c == CombineAll([per_pid_combined |-> <<>>, global_combined |-> <<>>], per_thread)
       IN  /\ per_pid_combined' = c.per_pid_combined
           /\ global_combined' = c.global_combined
    /\ mpc' = "report"
    /\ UNCHANGED <<prog, bin_paths, idx, per_thread, pids_seen, global_aggs, args, reports,
                   exit_status, log>>
    /\ UNCHANGED <<threadVars, mergeVars, resolveVars>>

\* prof2.py: symbol caches, the per-thread, per-PID and combined CSVs; the
\* command line's --sort and --top are first read here
Report2 ==
    /\ mpc = "report" /\ prog = "prof2"
    /\ \E sort_by \in SortKeys, top_n \in Tops :
        /\ args' = [sort |-> sort_by, top |-> top_n]
        /\ reports' = WriteAll(per_thread, per_pid_combined, global_combined, sort_by, top_n)
    /\ mpc' = "exit" /\ exit_status' = <<0>>
    /\ UNCHANGED <<prog, bin_paths, idx, per_thread, pids_seen, per_pid_combined,
                   global_combined, global_aggs, log>>
    /\ UNCHANGED <<threadVars, mergeVars, resolveVars>>

\* prof.py: try: analyze_thread_file(p, aggs) ... except Exception: print
Parse1 ==
    /\ mpc = "parse" /\ prog = "prof" /\ idx <= Len(bin_paths)
    /\ LET m == ParseFile1([global_aggs |-> global_aggs, log |-> log], bin_paths[idx], idx)
       IN  /\ global_aggs' = m.global_aggs
           /\ log' = m.log
    /\ idx' = idx + 1
    /\ UNCHANGED <<mpc, prog, bin_paths, per_thread, pids_seen, per_pid_combined,
                   global_combined, args, reports, exit_status>>
    /\ UNCHANGED <<threadVars, mergeVars, resolveVars>>

\* prof.py: "if not aggs: sys.exit(1)"
Check1 ==
    /\ mpc = "parse" /\ prog = "prof" /\ idx > Len(bin_paths)
    /\ IF global_aggs = <<>>
       THEN /\ mpc' = "exit" /\ exit_status' = <<1>>
            /\ log' = Append(log, <<"No events aggregated.", 0>>)
       ELSE /\ mpc' = "report"
            /\ UNCHANGED <<exit_status, log>>
    /\ UNCHANGED <<prog, bin_paths, idx, per_thread, pids_seen, per_pid_combined,
                   global_combined, global_aggs, args, reports>>
    /\ UNCHANGED <<threadVars, mergeVars, resolveVars>>

\* prof.py: symbolize, sort by total exclusive time, write the CSV
Report1 ==
    /\ mpc = "report" /\ prog = "prof"
    /\ \E top_n \in Tops :
        /\ args' = [sort |-> "exclusive", top |-> top_n]
        /\ reports' = <<<<<<"out", 0, 0>>, rows1(global_aggs, top_n)>>>>
    /\ mpc' = "exit" /\ exit_status' = <<0>>
    /\ UNCHANGED <<prog, bin_paths, idx, per_thread, pids_seen, per_pid_combined,
                   global_combined, global_aggs, log>>
    /\ UNCHANGED <<threadVars, mergeVars, resolveVars>>

NextMain ==
    \/ Glob
    \/ Parse2 \/ Check2 \/ Combine2 \/ Report2
    \/ Parse1 \/ Check1 \/ Report1

SpecMain == InitMain /\ [][NextMain]_vars

----------------------------------------------------------------------------
(* main as a function of the directory, for runs over the same files in
   another order *)

RECURSIVE ParseAll2(_, _, _)
ParseAll2(m, files, i) ==
    IF i > Len(files) THEN m ELSE ParseAll2(ParseFile2(m, files[i], i), files, i + 1)

RECURSIVE ParseAll1(_, _, _)
ParseAll1(m, files, i) ==
    IF i > Len(files) THEN m ELSE ParseAll1(ParseFile1(m, files[i], i), files, i + 1)

Outcome(pt, ppc, g, ga, rep, status) ==
    [per_thread |-> pt, per_pid_combined |-> ppc, global_combined |-> g,
     global_aggs |-> ga, reports |-> rep, exit_status |-> status]

RunMain2(files, sort_by, top_n) ==
    IF files = <<>> THEN Outcome(<<>>, <<>>, <<>>, <<>>, <<>>, <<1>>)
    ELSE LET m == ParseAll2([per_thread |-> <<>>, pids_seen |-> {}, log |-> <<>>], files, 1)
             c == CombineAll([per_pid_combined |-> <<>>, global_combined |-> <<>>], m.per_thread)
         IN  IF m.per_thread = <<>> THEN Outcome(<<>>, <<>>, <<>>, <<>>, <<>>, <<1>>)
             ELSE Outcome(m.per_thread, c.per_pid_combined, c.global_combined, <<>>,
                          WriteAll(m.per_thread, c.per_pid_combined, c.global_combined,
                                   sort_by, top_n),
                          <<0>>)

RunMain1(files, top_n) ==
    IF files = <<>> THEN Outcome(<<>>, <<>>, <<>>, <<>>, <<>>, <<1>>)
    ELSE LET m == ParseAll1([global_aggs |-> <<>>, log |-> <<>>], files, 1)
         IN  IF m.global_aggs = <<>> THEN Outcome(<<>>, <<>>, <<>>, <<>>, <<>>, <<1>>)
             ELSE Outcome(<<>>, <<>>, <<>>, m.global_aggs,
                          <<<<<<"out", 0, 0>>, rows1(m.global_aggs, top_n)>>>>, <<0>>)

RunMain(pg, files, a) ==
    IF pg = "prof2" THEN RunMain2(files, a.sort, a.top) ELSE RunMain1(files, a.top)

\* the options of the run (the defaults when it ended before reading them)
ArgsOfRun == IF args = None THEN [sort |-> "exclusive", top |-> 0] ELSE args

\* equality of dicts of dicts
DictEq2(d, e) ==
    /\ DictKeys(d) = DictKeys(e)
    /\ \A k \in DictKeys(d) : DictEq(DictGet(d, k), DictGet(e, k))

SameAggregates(o) ==
    /\ DictEq2(o.per_thread, per_thread)
    /\ DictEq2(o.per_pid_combined, per_pid_combined)
    /\ DictEq(o.global_combined, global_combined)
    /\ DictEq(o.global_aggs, global_aggs)
    /\ o.exit_status = exit_status

RowSet(rows) == {rows[i] : i \in 1..Len(rows)}

\* no two accepted logs carry the same (pid, tid): one log per thread
DistinctThreads(files) ==
    \A i, j \in 1..Len(files) :
        (/\ i # j /\ HeaderOk(files[i].hdr) /\ HeaderOk(files[j].hdr)
         /\ files[i].hdr.pid = files[j].hdr.pid)
        => files[i].hdr.tid # files[j].hdr.tid

NoTies(rows, k) == \A i, j \in 1..Len(rows) : i # j => rows[i][k] # rows[j][k]

\* C4 as stated: for every permutation of the same input files (one log per
\* thread, as the input layout has it) the per-thread, per-process and global
\* aggregates and the emitted report rows are identical.
C4_AnyOrderSameOutput ==
    (mpc = "exit" /\ prog = "prof2" /\ DistinctThreads(bin_paths)) =>
        \A p \in Perms(Len(bin_paths)) :
            LET o == RunMain(prog, Permuted(bin_paths, p), ArgsOfRun)
            IN  SameAggregates(o) /\ DictEq(o.reports, reports)

\* C4 amended: when no two accepted logs carry the same (pid, tid), every
\* processing order of the same files gives the same exit status and the same
\* per-thread, per-process and global aggregates; every report has the same rows
\* when it is not truncated, and the same rows in the same order when no two
\* functions of the report have the same value of the sort metric. Rows of equal
\* metric come out in encounter order, which follows the processing order.
C4_OrderIndependentUpToTies ==
    (mpc = "exit" /\ (prog = "prof2" => DistinctThreads(bin_paths))) =>
        LET full == RunMain(prog, bin_paths, [ArgsOfRun EXCEPT !.top = 0]).reports
            k == key_idx(ArgsOfRun.sort)
        IN  \A p \in Perms(Len(bin_paths)) :
                LET o == RunMain(prog, Permuted(bin_paths, p), ArgsOfRun)
                IN  /\ SameAggregates(o)
                    /\ DictKeys(o.reports) = DictKeys(reports)
                    /\ \A n \in DictKeys(reports) :
                        /\ ArgsOfRun.top = 0 =>
                            RowSet(DictGet(o.reports, n)) = RowSet(DictGet(reports, n))
                        /\ NoTies(DictGet(full, n), k) =>
                            DictGet(o.reports, n) = DictGet(reports, n)

\* the logs of two threads of one process were analysed, both calling the same
\* function, the larger max-inclusive in the log read first
C4_Witness ==
    /\ mpc = "exit" /\ exit_status = <<0>> /\ prog = "prof2"
    /\ Len(per_thread) = 2 /\ Len(per_pid_combined) = 1
    /\ \E f \in Addrs :
        /\ DictHas(per_thread[1][2], f) /\ DictHas(per_thread[2][2], f)
        /\ DictGet(per_thread[1][2], f).max_incl_ns > DictGet(per_thread[2][2], f).max_incl_ns
    /\ Len(per_pid_combined[1][2]) = 2
    /\ NoTies(DictGet(reports, <<"combined", 0, 0>>), key_idx(args.sort))
    /\ bin_paths[1] # bin_paths[2]

----------------------------------------------------------------------------
(* The global-scope aggregate *)

RECURSIVE SumCalls(_)
SumCalls(d) == IF d = <<>> THEN 0 ELSE Head(d)[2].calls + SumCalls(Tail(d))

RECURSIVE FoldThreads(_, _, _)
\* over the threads T (indices of per_thread): the aggregates of addr, combined
FoldThreads(T, addr, acc) ==
    IF T = {} THEN acc
    ELSE LET i == CHOOSE x \in T : TRUE
             a == DictGet(per_thread[i][2], addr)
         IN  FoldThreads(T \ {i}, addr,
                         IF acc = None THEN a
                         ELSE Agg(acc.calls + a.calls, acc.incl_ns + a.incl_ns,
                                  acc.excl_ns + a.excl_ns, Max(acc.max_incl_ns, a.max_incl_ns)))

ThreadsWith(pid, addr) ==
    {i \in 1..Len(per_thread) : per_thread[i][1][1] = pid /\ DictHas(per_thread[i][2], addr)}

\* prof2.py: global_combined[(pid, addr)] is the merge of exactly the
\* aggregates for addr of the threads of pid
GlobalKeyedByPid ==
    /\ DictKeys(global_combined) \subseteq (Pids \X Addrs)
    /\ \A pid \in Pids, addr \in Addrs :
        DictGet(global_combined, <<pid, addr>>) = FoldThreads(ThreadsWith(pid, addr), addr, None)

\* the pids of the accepted logs read so far in which addr was called
PidsCalling(addr) ==
    {bin_paths[i].hdr.pid : i \in {j \in 1..Len(bin_paths) :
        /\ j < idx /\ HeaderOk(bin_paths[j].hdr)
        /\ DictHas(AnalyzeRecords(bin_paths[j].recs, <<>>), addr)}}

\* prof.py: an entry of the global aggregate holds the calls of one process
GlobalEntryOfOnePid == \A addr \in DictKeys(global_aggs) : Cardinality(PidsCalling(addr)) <= 1

AfterCombine == mpc = "report" \/ (mpc = "exit" /\ exit_status = <<0>>)

\* C5: in the global-scope aggregate, contributions of one function address
\* from logs of two different process ids are never combined into one entry;
\* the entry for (pid, addr) is the merge of exactly the per-thread aggregates
\* for addr of the threads whose header carries that pid.
C5_GlobalNeverMixesPids ==
    AfterCombine => IF prog = "prof2" THEN GlobalKeyedByPid ELSE GlobalEntryOfOnePid

\* C5, prof2.py alone: global_combined keeps the processes apart
C5_Prof2GlobalKeyedByPid == (AfterCombine /\ prog = "prof2") => GlobalKeyedByPid

----------------------------------------------------------------------------
(* Report order *)

\* the rows of the report n before sorting, in iteration order of its aggregate
UnsortedOf(n) ==
    CASE n[1] = "tid" -> RowsOfAggs(n[2], DictGet(per_thread, <<n[2], n[3]>>))
      [] n[1] = "pid" -> RowsOfAggs(n[2], DictGet(per_pid_combined, n[2]))
      [] n[1] = "combined" -> GlobalRowsOf(global_combined)
      [] n[1] = "out" -> RowsOfAggs1(global_aggs)

\* the place of row i of u in a stable descending sort by column k
Rank(u, i, k) ==
    1 + Cardinality({j \in 1..Len(u) : u[j][k] > u[i][k]})
      + Cardinality({j \in 1..(i - 1) : u[j][k] = u[i][k]})

\* rows is the first top_n rows (all rows if top_n is 0) of u sorted descending
\* by column k, rows of equal metric in the order of u
SortedPrefix(rows, u, k, top_n) ==
    /\ Len(rows) = IF top_n > 0 /\ top_n < Len(u) THEN top_n ELSE Len(u)
    /\ \A i \in 1..Len(u) : Rank(u, i, k) <= Len(rows) => rows[Rank(u, i, k)] = u[i]
    /\ \A i \in 1..(Len(rows) - 1) : rows[i][k] >= rows[i + 1][k]

Reported == mpc = "exit" /\ exit_status = <<0>>

\* C9 as stated: report rows are strictly descending by the chosen metric, rows
\* of equal metric keep their iteration order, and truncation to the top N rows
\* yields the first N rows of the full sorted list.
C9_StrictlyDescending ==
    Reported =>
        \A i \in 1..Len(reports) :
            LET rows == reports[i][2]
                k == key_idx(args.sort)
            IN  /\ SortedPrefix(rows, UnsortedOf(reports[i][1]), k, args.top)
                /\ \A j \in 1..(Len(rows) - 1) : rows[j][k] > rows[j + 1][k]

\* C9 amended: report rows are in non-increasing order of the chosen metric
\* (equal values occur), rows of equal metric keep their iteration order, and
\* truncation to the top N rows yields the first N rows of the full sorted list.
C9_SortedStableTruncated ==
    Reported =>
        \A i \in 1..Len(reports) :
            SortedPrefix(reports[i][2], UnsortedOf(reports[i][1]), key_idx(args.sort), args.top)

\* a report of three functions or more was cut to two rows of equal metric, and
\* the sort moved a row up
C9_Witness ==
    /\ Reported
    /\ \E i \in 1..Len(reports) :
        LET rows == reports[i][2]
            u == UnsortedOf(reports[i][1])
            k == key_idx(args.sort)
        IN  /\ Len(u) >= 3 /\ Len(rows) = 2
            /\ rows[1][k] = rows[2][k]
            /\ rows[1] # u[1]

----------------------------------------------------------------------------
(* Exit status *)

RECURSIVE TotalCalls(_)
TotalCalls(pt) == IF pt = <<>> THEN 0 ELSE SumCalls(Head(pt)[2]) + TotalCalls(Tail(pt))

\* calls aggregated over all accepted logs
EventsAggregated == IF prog = "prof2" THEN TotalCalls(per_thread) ELSE SumCalls(global_aggs)

\* C10: the run ends with a nonzero exit status whenever no input logs are found
\* or zero events are aggregated overall, also when every accepted log has a
\* valid header and no complete record.
C10_NonzeroExitWhenNothingAggregated ==
    mpc = "exit" => ((bin_paths = <<>> \/ EventsAggregated = 0) => exit_status # <<0>>)

\* C10, prof.py alone: "if not aggs" ends the run with status 1
C10_ProfExitsNonzero ==
    (mpc = "exit" /\ prog = "prof") =>
        ((bin_paths = <<>> \/ EventsAggregated = 0) <=> exit_status = <<1>>)

----------------------------------------------------------------------------
(* Rejected logs *)

\* the header's magic or its declared record size is not the expected one
Mismatched(h) == h.magic # "FPROFv1" \/ h.rec_size # RECORD_SZ

RECURSIVE WithoutMismatched(_)
WithoutMismatched(files) ==
    IF files = <<>> THEN <<>>
    ELSE (IF Mismatched(Head(files).hdr) THEN <<>> ELSE <<Head(files)>>)
         \o WithoutMismatched(Tail(files))

\* the parse step of a log whose header mismatches: no aggregate changes, the
\* rejection is reported, and the loop moves to the next path
C11_RejectStep ==
    (mpc = "parse" /\ idx <= Len(bin_paths) /\ Mismatched(bin_paths[idx].hdr)) =>
        /\ per_thread' = per_thread /\ pids_seen' = pids_seen
        /\ global_aggs' = global_aggs
        /\ per_pid_combined' = per_pid_combined /\ global_combined' = global_combined
        /\ log' = Append(log, <<"Failed to parse", idx>>)
        /\ idx' = idx + 1 /\ mpc' = "parse" /\ exit_status' = <<>>

\* while and after the logs are parsed, the aggregates are those of the same
\* run over the paths read so far with the mismatching logs left out
C11_OnlyAcceptedContribute ==
    mpc \in {"parse", "combine", "report", "exit"} /\ bin_paths # <<>> =>
        LET kept == WithoutMismatched(SubSeq(bin_paths, 1, idx - 1))
            m2 == ParseAll2([per_thread |-> <<>>, pids_seen |-> {}, log |-> <<>>], kept, 1)
            m1 == ParseAll1([global_aggs |-> <<>>, log |-> <<>>], kept, 1)
        IN  IF prog = "prof2"
            THEN per_thread = m2.per_thread /\ pids_seen = m2.pids_seen
            ELSE global_aggs = m1.global_aggs

\* C11: a thread log whose magic or declared record size mismatches is rejected
\* for that file alone: the rejecting step touches no aggregate, the rejected
\* file contributes nothing to any aggregate map, the aggregates built from the
\* other files are unchanged, and the run goes on with the remaining files.
C11_RejectedForThatFileAlone ==
    [][C11_RejectStep]_vars /\ []C11_OnlyAcceptedContribute

\* a log with calls was aggregated, the next log was rejected for its header,
\* and the run is still in its parse loop with the aggregates of the first log
C11_Witness ==
    /\ mpc = "parse" /\ Len(bin_paths) = 2 /\ idx = 3
    /\ ~Mismatched(bin_paths[1].hdr) /\ bin_paths[1].recs # <<>>
    /\ Mismatched(bin_paths[2].hdr)
    /\ log = <<<<"Failed to parse", 2>>>>
    /\ (per_thread # <<>> \/ global_aggs # <<>>)

\* a log rejected first does not stop the run: the log after it is aggregated
C11_WitnessRunGoesOn ==
    /\ mpc = "parse" /\ Len(bin_paths) = 2 /\ idx = 3
    /\ Mismatched(bin_paths[1].hdr)
    /\ ~Mismatched(bin_paths[2].hdr) /\ bin_paths[2].recs # <<>>
    /\ (per_thread # <<>> \/ global_aggs # <<>>)

\* analyze_thread_file alone: when load_header raises, no record was read and
\* the aggregate map is still empty
C11_RaisedBeforeAggregates ==
    pc = "raised" => (~HeaderOk(hdr) /\ recs = <<>> /\ stack = <<>> /\ aggs = <<>> /\ closed = <<>>)

----------------------------------------------------------------------------
(* Exit records *)

CallsOf(d, f) == IF DictHas(d, f) THEN DictGet(d, f).calls ELSE 0

\* the topmost open frame of address f, 0 when there is none
TopMatch(stk, f) ==
    IF \E i \in 1..Len(stk) : stk[i].fn = f
    THEN CHOOSE i \in 1..Len(stk) :
            stk[i].fn = f /\ \A j \in (i + 1)..Len(stk) : stk[j].fn # f
    ELSE 0

\* the inclusive duration of frame i of stk when closed at ts
InclAt(stk, i, ts) == IF ts >= stk[i].start THEN ts - stk[i].start ELSE 0

\* the step that reads an Exit record: with low the topmost frame of the Exit's
\* address (the bottom frame when none matches), exactly the frames low..top are
\* popped, top first, each closed at the Exit's timestamp after receiving the
\* inclusive duration of the frame popped before it; each closure adds one call
\* to its address; the frame left on top receives the inclusive duration of the
\* last popped frame and the frames under it are untouched; the reader stays in
\* its loop
C12_ExitStep ==
    (pc = "loop" /\ Len(recs') = Len(recs) + 1 /\ recs'[Len(recs')].typ # 0) =>
        LET rec == recs'[Len(recs')]
            n == Len(stack)
            m == TopMatch(stack, rec.fn)
            low == IF m = 0 THEN 1 ELSE m
            npop == IF n = 0 THEN 0 ELSE n - low + 1
            \* the k-th popped frame is frame n - k + 1 of the old stack
            got(i) == IF i = n THEN 0 ELSE InclAt(stack, i + 1, rec.ts)
        IN  /\ pc' = "loop"
            /\ Len(stack') = n - npop
            /\ m = 0 => stack' = <<>>
            /\ \A i \in 1..(n - npop) :
                stack'[i] = IF i = n - npop
                            THEN [stack[i] EXCEPT !.child = @ + InclAt(stack, i + 1, rec.ts)]
                            ELSE stack[i]
            /\ Len(closed') = Len(closed) + npop
            /\ SubSeq(closed', 1, Len(closed)) = closed
            /\ \A k \in 1..npop :
                LET i == n - k + 1
                    c == closed'[Len(closed) + k]
                    incl == InclAt(stack, i, rec.ts)
                    child == stack[i].child + got(i)
                IN  /\ c.fn = stack[i].fn /\ c.start = stack[i].start
                    /\ c.ts = rec.ts /\ c.forced = FALSE
                    /\ c.incl = incl /\ c.child = child
                    /\ c.excl = IF incl >= child THEN incl - child ELSE 0
                    /\ (c.fn = rec.fn) <=> (k = npop /\ m # 0)
            /\ \A f \in Addrs :
                CallsOf(aggs', f) =
                    CallsOf(aggs, f) + Cardinality({i \in low..n : stack[i].fn = f})

\* C12: on an Exit record, frames are popped from the top of the stack until a
\* popped frame's address equals the Exit's address or the stack is empty; every
\* popped frame, matching or not, is closed with the Exit's timestamp (calls + 1
\* for its address) and its inclusive duration is added to the child duration of
\* the frame then on top; no frame below the first matching frame is popped, and
\* an Exit that matches no open frame empties the stack without an error.
C12_DrainUntilMatch == [][C12_ExitStep]_vars

\* an Exit closed a frame of another address and then the frame of its own
\* address, and left the frame under them open with their time as child time
C12_Witness ==
    /\ pc = "loop" /\ Len(recs) = 4 /\ recs[4].typ = 1
    /\ Len(closed) = 2 /\ Len(stack) = 1
    /\ closed[1].fn # recs[4].fn /\ closed[2].fn = recs[4].fn
    /\ closed[1].ts = recs[4].ts /\ closed[2].ts = recs[4].ts
    /\ closed[1].incl > 0 /\ closed[2].child = closed[1].incl
    /\ stack[1].child = closed[2].incl /\ stack[1].child > 0

\* an Exit of an address with no open frame emptied a stack of two frames
C12_WitnessNoMatch ==
    /\ pc = "loop" /\ Len(recs) = 3 /\ recs[3].typ = 1
    /\ recs[1].typ = 0 /\ recs[2].typ = 0
    /\ recs[1].fn # recs[3].fn /\ recs[2].fn # recs[3].fn
    /\ stack = <<>> /\ Len(closed) = 2

----------------------------------------------------------------------------
(* Call counts *)

EntersOf(rs, f) == {i \in Enters(rs) : rs[i].fn = f}

OpenOf(stk, f) == {i \in 1..Len(stk) : stk[i].fn = f}

\* every Enter record read so far is either open on the stack or closed once:
\* for each address and timestamp, as many frames and closures as Enter records
EachEnterOpenOrClosedOnce ==
    \A f \in Addrs, t \in 0..MaxTs :
        Cardinality({i \in 1..Len(closed) : closed[i].fn = f /\ closed[i].start = t})
        + Cardinality({i \in 1..Len(stack) : stack[i].fn = f /\ stack[i].start = t})
        = Cardinality({i \in Enters(recs) : recs[i].fn = f /\ recs[i].ts = t})

\* C13: for any record sequence, balanced or not, every Enter record is closed
\* exactly once: during processing the closed calls plus the stack depth equal
\* the number of Enter records read so far, and when analyze_thread_file returns
\* the stack is empty, each address's call count is the number of Enter records
\* of that address and the call counts add up to the number of Enter records.
C13_CallCountConservation ==
    pc \in {"loop", "returned"} =>
        /\ EachEnterOpenOrClosedOnce
        /\ Len(closed) = SumCalls(aggs)
        /\ SumCalls(aggs) + Len(stack) = Cardinality(Enters(recs))
        /\ \A f \in Addrs :
            CallsOf(aggs, f) + Cardinality(OpenOf(stack, f)) = Cardinality(EntersOf(recs, f))
        /\ pc = "returned" =>
            /\ stack = <<>>
            /\ SumCalls(aggs) = Cardinality(Enters(recs))
            /\ \A f \in Addrs : CallsOf(aggs, f) = Cardinality(EntersOf(recs, f))
            /\ DictKeys(aggs) = {f \in Addrs : EntersOf(recs, f) # {}}

\* the reader returned from an unbalanced log of three Enter records: one was
\* closed by an Exit of another address, one at the end of the stream
C13_Witness ==
    /\ pc = "returned" /\ ~Balanced(recs)
    /\ Cardinality(Enters(recs)) = 3 /\ SumCalls(aggs) = 3
    /\ \E i \in 1..Len(closed) : closed[i].forced
    /\ \E i \in 1..Len(closed), j \in 1..Len(recs) :
        /\ ~closed[i].forced /\ recs[j].typ = 1
        /\ closed[i].ts = recs[j].ts /\ closed[i].fn # recs[j].fn
        /\ \A k \in 1..Len(recs) : (recs[k].typ = 1) => k = j

RECURSIVE EntersOfFiles(_)
EntersOfFiles(files) ==
    IF files = <<>> THEN 0
    ELSE Cardinality(Enters(Head(files).recs)) + EntersOfFiles(Tail(files))

\* the last accepted log of thread key among the paths read so far
LastLogOf(files, key) ==
    LET S == {i \in 1..Len(files) :
                ~Mismatched(files[i].hdr) /\ <<files[i].hdr.pid, files[i].hdr.tid>> = key}
    IN  files[CHOOSE i \in S : \A j \in S : j <= i]

\* main: prof.py adds the Enter records of each accepted log to its one map;
\* prof2.py keeps for each thread the Enter count of the log stored for it
C13_MainCallCounts ==
    mpc \in {"parse", "combine", "report", "exit"} /\ bin_paths # <<>> =>
        LET read == SubSeq(bin_paths, 1, idx - 1)
        IN  IF prog = "prof"
            THEN SumCalls(global_aggs) = EntersOfFiles(WithoutMismatched(read))
            ELSE \A i \in 1..Len(per_thread) :
                    SumCalls(per_thread[i][2])
                        = Cardinality(Enters(LastLogOf(read, per_thread[i][1]).recs))

====
